---- MODULE Spec2Model ----
(***************************************************************************)
(* Pedigree graphs of pyp_network.py: ped_to_graph() and the lineage and   *)
(* progeny queries that run on the DiGraph it returns.                     *)
(*                                                                         *)
(* A pedigree is a sequence of animal records.  The record source numbers  *)
(* the animals 1..n in record order (animalID = position) and writes the   *)
(* missing-parent sentinel for an unknown parent.  The DiGraph keeps its   *)
(* nodes and adjacency lists in insertion order, one edge per ordered pair *)
(* of nodes.  Library calls are modelled by the meaning of the call as it  *)
(* is written in the source (predecessors/successors are lists, degree()   *)
(* with labels is a node->degree mapping, neighbors() of a DiGraph are its *)
(* successors).                                                            *)
(***************************************************************************)
EXTENDS Integers, Sequences, FiniteSets, TLC

VARIABLES ped,    \* pedobj.pedigree: the record sequence
          pc,     \* "start" before ped_to_graph() has run, "built" after
          oid,    \* the oid flag ped_to_graph() was called with
          G,      \* the value ped_to_graph() returned
          acc,    \* the default _ancestors dictionary of find_ancestors_g()
          ret     \* the last call of a query and what it returned

vars == <<ped, pc, oid, G, acc, ret>>

(* ----------------------------- bounds ---------------------------------- *)
MaxAnimals == 4      \* records of a pedigree in parent-before-offspring order
MaxRecords == 3      \* records of a pedigree in arbitrary order
MaxGens == 3         \* largest gens passed to find_ancestors_g()
MaxSessionAnimals == 3  \* records of a pedigree in a session of many calls
OrigBase == 10       \* originalID of the animal at position i is OrigBase + i

(* pedobj.kw['missing_parent'] *)
missing_parent == 0

(* ----------------------------- helpers --------------------------------- *)
Range(s) == {s[i] : i \in 1..Len(s)}

(* str() of a non-negative integer: its decimal digits. *)
RECURSIVE Str(_)
Str(n) == IF n < 10 THEN <<n>> ELSE Str(n \div 10) \o <<n % 10>>

EmptyDict == [x \in {} |-> 0]

(* ----------------------------- pedigrees ------------------------------- *)
Animal(i, s, d) ==
    [animalID |-> i, originalID |-> OrigBase + i, sireID |-> s, damID |-> d]

(* The parents one record may name, out of the identifiers in ids: none,   *)
(* one, or two different animals.                                          *)
ParentPairs(ids) ==
    {<<s, d>> \in (ids \cup {missing_parent}) \X (ids \cup {missing_parent}) :
        s = missing_parent \/ s # d}

(* Pedigrees of n records in which parents precede their offspring. *)
RECURSIVE OrderedPedigrees(_)
OrderedPedigrees(n) ==
    IF n = 0 THEN {<<>>}
    ELSE {Append(p, Animal(n, sd[1], sd[2])) :
             p \in OrderedPedigrees(n - 1), sd \in ParentPairs(1..(n - 1))}

(* Pedigrees of n records whose parent fields name any identifier, also of *)
(* a later record, of the record itself or of no record.                   *)
AnyPedigrees(n) ==
    {[i \in 1..n |-> Animal(i, f[i][1], f[i][2])] :
        f \in [1..n -> ParentPairs(1..(n + 1))]}

(* ----------------------------- DiGraph --------------------------------- *)
(* networkx.DiGraph(): no nodes, no edges. *)
DiGraph ==
    [ok |-> TRUE, nodes |-> <<>>, attr |-> <<>>, pred |-> <<>>, succ |-> <<>>,
     sex |-> <<>>]

(* What ped_to_graph() returns when construction raised: False. *)
GFalse ==
    [ok |-> FALSE, nodes |-> <<>>, attr |-> <<>>, pred |-> <<>>, succ |-> <<>>,
     sex |-> <<>>]

NoAttr == [has |-> FALSE, sire |-> <<>>, dam |-> <<>>]

Nodes(g) == Range(g.nodes)

Edges(g) == DOMAIN g.sex

(* A node the graph does not have yet is appended with no attributes. *)
touch_node(g, n) ==
    IF n \in Nodes(g) THEN g
    ELSE [g EXCEPT !.nodes = Append(g.nodes, n),
                   !.attr = (n :> NoAttr) @@ g.attr,
                   !.pred = (n :> <<>>) @@ g.pred,
                   !.succ = (n :> <<>>) @@ g.succ]

(* G.add_node(n, sire=..., dam=...) *)
add_node(g, n, sire, dam) ==
    LET h == touch_node(g, n)
    IN  [h EXCEPT !.attr[n] = [has |-> TRUE, sire |-> sire, dam |-> dam]]

(* G.add_edge(u, v, sex=...): missing endpoints are created, a second edge *)
(* u -> v only overwrites the edge's data.                                 *)
add_edge(g, u, v, sx) ==
    LET h == touch_node(touch_node(g, u), v)
    IN  IF <<u, v>> \in Edges(h)
        THEN [h EXCEPT !.sex[<<u, v>>] = sx]
        ELSE [h EXCEPT !.succ[u] = Append(h.succ[u], v),
                       !.pred[v] = Append(h.pred[v], u),
                       !.sex = (<<u, v>> :> sx) @@ h.sex]

(* G.predecessors(n), G.successors(n) *)
predecessors(g, n) == g.pred[n]

successors(g, n) == g.succ[n]

(* ----------------------------- ped_to_graph ---------------------------- *)
(* pedobj.pedigree[k] with a Python index k: IndexError outside -l..l-1. *)
IndexOk(p, k) == k >= -Len(p) /\ k < Len(p)

PyItem(p, k) == IF k >= 0 THEN p[k + 1] ELSE p[Len(p) + k + 1]

(* The body of the loop for the record at position i (Python index i-1);   *)
(* raises is TRUE when a subscript of pedobj.pedigree is out of range.     *)
RecordRaises(p, o, i) ==
    o = 1 /\ (~IndexOk(p, p[i].sireID) \/ ~IndexOk(p, p[i].damID))

(* sire_edge() without the test for the missing-parent sentinel. *)
sire_edge_unchecked(g, p, o, i) ==
    IF o = 1
    THEN add_edge(g, PyItem(p, p[i].sireID).originalID, p[i].originalID, "s")
    ELSE add_edge(g, p[i].sireID, p[i].animalID, "s")

sire_edge(g, p, o, i) ==
    IF Str(p[i].sireID) # Str(missing_parent)
    THEN IF o = 1
         THEN add_edge(g, PyItem(p, p[i].sireID).originalID, p[i].originalID, "s")
         ELSE add_edge(g, p[i].sireID, p[i].animalID, "s")
    ELSE g

dam_edge(g, p, o, i) ==
    IF Str(p[i].damID) # Str(missing_parent)
    THEN IF o = 1
         THEN add_edge(g, PyItem(p, p[i].damID).originalID, p[i].originalID, "d")
         ELSE add_edge(g, p[i].damID, p[i].animalID, "d")
    ELSE g

record_node(g, p, o, i) ==
    IF o = 1
    THEN add_node(g, p[i].originalID,
                  Str(PyItem(p, p[i].sireID).originalID),
                  Str(PyItem(p, p[i].damID).originalID))
    ELSE add_node(g, p[i].animalID, Str(p[i].sireID), Str(p[i].damID))

RECURSIVE build_from(_, _, _, _)
build_from(g, p, o, i) ==
    IF i > Len(p) THEN g
    ELSE IF RecordRaises(p, o, i) THEN GFalse
    ELSE build_from(dam_edge(sire_edge(record_node(g, p, o, i), p, o, i), p, o, i),
                    p, o, i + 1)

ped_to_graph(p, o) == build_from(DiGraph, p, o, 1)

(* ----------------------------- lineage traversal ----------------------- *)
(* What a query returns: False (failed), or a list, a dictionary, a count. *)
Returned(s, d, n) == [failed |-> FALSE, set |-> s, dict |-> d, num |-> n]

ReturnedFalse == [failed |-> TRUE, set |-> {}, dict |-> EmptyDict, num |-> 0]

(* Breadth-first closure of the nodes in frontier along adj. *)
RECURSIVE bfs(_, _, _)
bfs(adj, frontier, seen) ==
    IF frontier = {} THEN seen
    ELSE LET found == UNION {Range(adj[n]) : n \in frontier} \ seen
         IN  bfs(adj, found, seen \cup found)

(* ancestors() that stops at the parents of source. *)
nx_ancestors_parents_only(g, source) == Range(g.pred[source]) \ {source}

(* networkx.algorithms.dag.ancestors(G, source): what reaches source, less *)
(* source itself.                                                          *)
nx_ancestors(g, source) == bfs(g.pred, {source}, {source}) \ {source}

(* networkx.algorithms.dag.descendants(G, source) *)
nx_descendants(g, source) == bfs(g.succ, {source}, {source}) \ {source}

(* find_ancestors(): the library raises for a node the graph does not have. *)
find_ancestors(g, anid) ==
    IF anid \in Nodes(g) THEN Returned(nx_ancestors(g, anid), EmptyDict, 0)
    ELSE ReturnedFalse

(* find_descendants(): the except branch assigns False to _decendants and  *)
(* the default list [] is returned.                                        *)
find_descendants(g, anid) ==
    IF anid \in Nodes(g) THEN Returned(nx_descendants(g, anid), EmptyDict, 0)
    ELSE Returned({}, EmptyDict, 0)

(* The recursion of find_ancestors_g() over one dictionary: ancestors_g is *)
(* the call, ancestors_g_loop its loop over _pred from position j on.      *)
RECURSIVE ancestors_g(_, _, _, _)
RECURSIVE ancestors_g_loop(_, _, _, _, _)
(* ancestors_g() that stops one generation early. *)
ancestors_g_stops_early(g, anid, a, gens) ==
    IF gens <= 1 THEN a
    ELSE ancestors_g_loop(g, predecessors(g, anid), 1, a, gens)

ancestors_g(g, anid, a, gens) ==
    IF gens = 0 THEN a
    ELSE ancestors_g_loop(g, predecessors(g, anid), 1, a, gens)

ancestors_g_loop(g, _pred, j, a, gens) ==
    IF j > Len(_pred) THEN a
    ELSE IF _pred[j] \in DOMAIN a
         THEN ancestors_g_loop(g, _pred, j + 1, a, gens)
         ELSE ancestors_g_loop(g, _pred, j + 1,
                  ancestors_g(g, _pred[j], (_pred[j] :> gens) @@ a, gens - 1),
                  gens)

(* find_ancestors_g(pedgraph, anid, _ancestors, gens) *)
find_ancestors_g(g, anid, a, gens) ==
    IF gens = 0 THEN Returned({}, a, 0)
    ELSE IF anid \in Nodes(g) THEN Returned({}, ancestors_g(g, anid, a, gens), 0)
    ELSE ReturnedFalse

(* networkx.neighbors(G, n) is G.neighbors(n): for a DiGraph, successors. *)
neighbors(g, n) == successors(g, n)

(* immediate_family() *)
immediate_family(g, anid) ==
    IF anid \in Nodes(g) THEN Returned(Range(neighbors(g, anid)), EmptyDict, 0)
    ELSE ReturnedFalse

(* ----------------------------- progeny --------------------------------- *)
(* count_offspring() *)
count_offspring(g, anid) ==
    IF anid \in Nodes(g)
    THEN Returned({}, EmptyDict, Len(neighbors(g, anid)) - Len(predecessors(g, anid)))
    ELSE Returned({}, EmptyDict, 0)

(* networkx.degree(G, n) of a DiGraph: in-degree plus out-degree. *)
degree(g, n) == Len(g.pred[n]) + Len(g.succ[n])

(* offspring_influence() *)
offspring_influence(g, anid) ==
    IF anid \in Nodes(g)
    THEN Returned({},
             [_d \in Range(successors(g, anid)) |->
                 degree(g, _d) - Len(predecessors(g, _d))], 0)
    ELSE ReturnedFalse

(* One pass of the loop of most_influential_offspring() for offspring _o   *)
(* with influence v, by tie policy.                                        *)
(* step_first() that lets a tie replace the leader. *)
step_first_takes_ties(st, _o, v) ==
    IF v >= st.max_off THEN [st EXCEPT !.max_off = v, !.offid = _o] ELSE st

step_first(st, _o, v) ==
    IF v > st.max_off THEN [st EXCEPT !.max_off = v, !.offid = _o] ELSE st

step_last(st, _o, v) ==
    IF v >= st.max_off THEN [st EXCEPT !.max_off = v, !.offid = _o] ELSE st

step_all(st, _o, v) ==
    IF v > st.max_off
    THEN [max_off |-> v, offid |-> _o, temp |-> (_o :> v)]
    ELSE IF v = st.max_off
         THEN [st EXCEPT !.offid = _o, !.temp = (_o :> v)]
         ELSE [st EXCEPT !.temp = EmptyDict]

RECURSIVE influence_loop(_, _, _, _, _)
influence_loop(st, resolve, _offspring, order, j) ==
    IF j > Len(order) THEN st
    ELSE LET _o == order[j]
             nxt == IF resolve = "first" THEN step_first(st, _o, _offspring[_o])
                    ELSE IF resolve = "last" THEN step_last(st, _o, _offspring[_o])
                    ELSE step_all(st, _o, _offspring[_o])
         IN  influence_loop(nxt, resolve, _offspring, order, j + 1)

(* most_influential_offspring(); order is the order in which the loop      *)
(* meets the keys of the influence dictionary.                             *)
most_influential_offspring(g, anid, resolve, order) ==
    LET inf == offspring_influence(g, anid)
        st == influence_loop([max_off |-> -999, offid |-> -999, temp |-> EmptyDict],
                             resolve, inf.dict, order, 1)
    IN  IF inf.failed THEN ReturnedFalse
        ELSE IF resolve = "all" THEN Returned({}, st.temp, 0)
        ELSE Returned({}, (st.offid :> st.max_off), 0)

(* The orders in which a dictionary with the keys s can be iterated. *)
Orders(s) ==
    {f \in [1..Cardinality(s) -> s] : \A i, j \in DOMAIN f : f[i] = f[j] => i = j}

(* ----------------------------- structural metrics ---------------------- *)
in_degree(g, n) == Len(g.pred[n])

out_degree(g, n) == Len(g.succ[n])

(* get_node_degrees() *)
get_node_degrees(g) ==
    Returned({},
        [in |-> [n \in Nodes(g) |-> in_degree(g, n)],
         out |-> [n \in Nodes(g) |-> out_degree(g, n)],
         all |-> [n \in Nodes(g) |-> degree(g, n)]], 0)

(* max(d.values()) of a dictionary that is not empty. *)
max_value(d) ==
    CHOOSE m \in {d[k] : k \in DOMAIN d} : \A k \in DOMAIN d : d[k] <= m

(* The counting loop of get_node_degree_histograms() over the keys left. *)
RECURSIVE tally(_, _, _)
tally(h, d, keys) ==
    IF keys = {} THEN h
    ELSE LET k == CHOOSE x \in keys : TRUE
         IN  tally([h EXCEPT ![d[k]] = h[d[k]] + 1], d, keys \ {k})

(* histogram_of() with buckets for the observed degrees only. *)
histogram_sparse(d) == tally([i \in {d[k] : k \in DOMAIN d} |-> 0], d, DOMAIN d)

(* One histogram: a zero for every i in range(0, max+1), then the counts. *)
histogram_of(d) == tally([i \in 0..max_value(d) |-> 0], d, DOMAIN d)

(* get_node_degree_histograms(): max() of no values raises, as does a      *)
(* subscript of False.                                                     *)
get_node_degree_histograms(node_degrees) ==
    IF node_degrees.failed THEN ReturnedFalse
    ELSE IF DOMAIN node_degrees.dict.in = {} THEN ReturnedFalse
    ELSE Returned({},
             [in |-> histogram_of(node_degrees.dict.in),
              out |-> histogram_of(node_degrees.dict.out),
              all |-> histogram_of(node_degrees.dict.all)], 0)

(* networkx.is_directed_acyclic_graph(G) *)
is_directed_acyclic_graph(g) ==
    \A n \in Nodes(g) : n \notin bfs(g.succ, Range(g.succ[n]), Range(g.succ[n]))

(* G.delete_node(n): the node, its attributes and its edges go. *)
delete_node(g, n) ==
    LET left == Nodes(g) \ {n}
    IN  [ok |-> g.ok,
         nodes |-> SelectSeq(g.nodes, LAMBDA x : x # n),
         attr |-> [x \in left |-> g.attr[x]],
         pred |-> [x \in left |-> SelectSeq(g.pred[x], LAMBDA y : y # n)],
         succ |-> [x \in left |-> SelectSeq(g.succ[x], LAMBDA y : y # n)],
         sex |-> [e \in {d \in Edges(g) : d[1] # n /\ d[2] # n} |-> g.sex[e]]]

RECURSIVE delete_nodes(_, _)
delete_nodes(g, s) ==
    IF s = {} THEN g
    ELSE LET n == CHOOSE x \in s : TRUE
         IN  delete_nodes(delete_node(g, n), s \ {n})

(* networkx.subgraph(G, nbunch): a view would share the nodes of G. *)
subgraph_view(g, nbunch) ==
    [pedgraph |-> g, tg |-> delete_nodes(g, Nodes(g) \ nbunch), shared |-> TRUE]

(* networkx.subgraph(G, nbunch): a new graph induced on nbunch, beside G. *)
subgraph(g, nbunch) ==
    [pedgraph |-> g, tg |-> delete_nodes(g, Nodes(g) \ nbunch), shared |-> FALSE]

(* tg_delete_node() that leaves u in tg. *)
tg_keep_node(h, u) == h

(* tg.delete_node(u), on the two graphs a metric works with. *)
tg_delete_node(h, u) ==
    LET t == delete_node(h.tg, u)
    IN  [pedgraph |-> IF h.shared THEN t ELSE h.pedgraph,
         tg |-> t, shared |-> h.shared]

(* networkx.shortest_path_length(G, u, v): the breadth-first level of v,   *)
(* -1 where the library raises because there is no path.                   *)
RECURSIVE path_level(_, _, _, _, _)
path_level(g, frontier, seen, v, k) ==
    IF v \in frontier THEN k
    ELSE LET found == UNION {Range(g.succ[n]) : n \in frontier} \ seen
         IN  IF found = {} THEN -1
             ELSE path_level(g, found, seen \cup found, v, k + 1)

shortest_path_length(g, u, v) ==
    IF u \in Nodes(g) /\ v \in Nodes(g) THEN path_level(g, {u}, {u}, v, 0) ELSE -1

(* The inner loop of mean_geodesic() over tg.nodes_iter() from position j. *)
RECURSIVE geodesic_inner(_, _, _, _, _)
geodesic_inner(g, u, vs, j, tot) ==
    IF j > Len(vs) THEN tot
    ELSE LET length == shortest_path_length(g, u, vs[j])
         IN  geodesic_inner(g, u, vs, j + 1,
                 IF length > 0
                 THEN [length_sum |-> tot.length_sum + length,
                       n_pairs_with_paths |->
                           IF is_directed_acyclic_graph(g)
                           THEN tot.n_pairs_with_paths + 1
                           ELSE tot.n_pairs_with_paths]
                 ELSE tot)

(* The outer loop of mean_geodesic() over the nodes us from position i. *)
RECURSIVE geodesic_outer(_, _, _, _)
geodesic_outer(h, us, i, tot) ==
    IF i > Len(us) THEN [h |-> h, tot |-> tot]
    ELSE LET h1 == tg_delete_node(h, us[i])
         IN  geodesic_outer(h1, us, i + 1,
                 geodesic_inner(h1.pedgraph, us[i], h1.tg.nodes, 1, tot))

(* mean_geodesic(): the quotient is kept as its two terms; division by     *)
(* zero gives False.  after is pedgraph as the call leaves it.             *)
mean_geodesic(g) ==
    LET n0 == IF is_directed_acyclic_graph(g) THEN 0
              ELSE (Len(g.nodes) * (Len(g.nodes) + 1)) \div 2
        end == geodesic_outer(subgraph(g, Nodes(g)), g.nodes, 1,
                              [length_sum |-> 0, n_pairs_with_paths |-> n0])
    IN  [after |-> end.h.pedgraph,
         r |-> IF end.tot.n_pairs_with_paths = 0 THEN ReturnedFalse
               ELSE Returned({}, end.tot, 0)]

(* G.has_neighbor(u, v) of a DiGraph: v is a successor of u. *)
has_neighbor(g, u, v) == v \in Range(g.succ[u])

(* The branches of dyad_census() for the pair u, v. *)
census_pair(g, u, v, census) ==
    IF ~has_neighbor(g, u, v)
    THEN [census EXCEPT !.null = census.null + 1]
    ELSE IF u \in Range(predecessors(g, v)) /\ v \in Range(successors(g, u))
    THEN [census EXCEPT !.mutual = census.mutual + 1]
    ELSE IF u \in Range(predecessors(g, v)) /\ v \notin Range(successors(g, u))
    THEN [census EXCEPT !.asymmetric = census.asymmetric + 1]
    ELSE IF u \notin Range(predecessors(g, v)) /\ v \in Range(successors(g, u))
    THEN [census EXCEPT !.asymmetric = census.asymmetric + 1]
    ELSE census

RECURSIVE census_inner(_, _, _, _, _)
census_inner(g, u, vs, j, census) ==
    IF j > Len(vs) THEN census
    ELSE census_inner(g, u, vs, j + 1, census_pair(g, u, vs[j], census))

(* The outer loop of dyad_census(); raised when a lookup of u in pedgraph  *)
(* would fail.                                                             *)
RECURSIVE census_outer(_, _, _, _)
census_outer(h, us, i, census) ==
    IF i > Len(us) THEN [h |-> h, census |-> census, raised |-> FALSE]
    ELSE LET h1 == tg_delete_node(h, us[i])
         IN  IF h1.tg.nodes # <<>> /\ us[i] \notin Nodes(h1.pedgraph)
             THEN [h |-> h1, census |-> census, raised |-> TRUE]
             ELSE census_outer(h1, us, i + 1,
                      census_inner(h1.pedgraph, us[i], h1.tg.nodes, 1, census))

(* dyad_census(): False for a graph that is no DAG. *)
dyad_census(g) ==
    LET end == census_outer(subgraph(g, Nodes(g)), g.nodes, 1,
                            [null |-> 0, asymmetric |-> 0, mutual |-> 0])
    IN  IF ~is_directed_acyclic_graph(g) THEN [after |-> g, r |-> ReturnedFalse]
        ELSE [after |-> end.h.pedgraph,
              r |-> IF end.raised THEN ReturnedFalse
                    ELSE Returned({}, end.census, 0)]

(* graph_density(): the quotient is kept as its two terms. *)
graph_density(g) ==
    LET pgn == Len(g.nodes)
        pgne == Cardinality(Edges(g))
        denom == pgn * (pgn - 1)
    IN  IF denom = 0 THEN ReturnedFalse
        ELSE Returned({}, [pgne |-> pgne, denom |-> denom], 0)

(* The sum of the degrees d[n] over the nodes ns from position i. *)
RECURSIVE cent_sum(_, _, _)
cent_sum(d, ns, i) ==
    IF i > Len(ns) THEN 0 ELSE d[ns[i]] + cent_sum(d, ns, i + 1)

(* mean_degree_centrality(): the sums of the degrees, the divisor size-1   *)
(* of each term under normalize and the divisor order of the mean.         *)
mean_degree_centrality(g, normalize) ==
    IF Len(g.nodes) = 0 THEN ReturnedFalse
    ELSE IF normalize = 1 /\ Cardinality(Edges(g)) = 1 /\ is_directed_acyclic_graph(g)
    THEN ReturnedFalse
    ELSE IF normalize = 1 /\ Len(g.nodes) = 1 /\ ~is_directed_acyclic_graph(g)
    THEN ReturnedFalse
    ELSE IF is_directed_acyclic_graph(g)
    THEN Returned({}, [in |-> cent_sum([n \in Nodes(g) |-> in_degree(g, n)], g.nodes, 1),
                       out |-> cent_sum([n \in Nodes(g) |-> out_degree(g, n)], g.nodes, 1),
                       scale |-> IF normalize = 1 THEN Cardinality(Edges(g)) - 1 ELSE 1,
                       order |-> Len(g.nodes)], 0)
    ELSE Returned({}, [all |-> cent_sum([n \in Nodes(g) |-> degree(g, n)], g.nodes, 1),
                       scale |-> IF normalize = 1 THEN Len(g.nodes) - 1 ELSE 1,
                       order |-> Len(g.nodes)], 0)

(* ----------------------------- the session ----------------------------- *)
NoCall == [op |-> "none", id |-> 0, gens |-> 0, resolve |-> "", order |-> <<>>,
           failed |-> FALSE, set |-> {}, dict |-> EmptyDict, num |-> 0]

Call(op, id, gens, resolve, order, r) ==
    [op |-> op, id |-> id, gens |-> gens, resolve |-> resolve, order |-> order,
     failed |-> r.failed, set |-> r.set, dict |-> r.dict, num |-> r.num]

InitWith(peds) ==
    /\ ped \in peds
    /\ pc = "start"
    /\ oid = 0
    /\ G = DiGraph
    /\ acc = EmptyDict
    /\ ret = NoCall

(* A session on a pedigree whose parents precede their offspring. *)
Init == InitWith(UNION {OrderedPedigrees(n) : n \in 1..MaxAnimals})

(* A session on any pedigree. *)
InitAny == InitWith(UNION {AnyPedigrees(n) : n \in 1..MaxRecords})

(* The identifiers a caller asks about: the nodes and one that is no node. *)
QueryIds == Nodes(G) \cup {missing_parent}

Usable == pc = "built" /\ G.ok

(* ret holds one call: a query that keeps no state is observed once per   *)
(* session, on the graph as built.                                         *)
Idle == Usable /\ ret = NoCall

Build(o) ==
    /\ pc = "start"
    /\ pc' = "built"
    /\ oid' = o
    /\ G' = ped_to_graph(ped, o)
    /\ UNCHANGED <<ped, acc, ret>>

FindAncestors(anid) ==
    /\ Idle
    /\ ret' = Call("find_ancestors", anid, 0, "", <<>>, find_ancestors(G, anid))
    /\ UNCHANGED <<ped, pc, oid, G, acc>>

FindDescendants(anid) ==
    /\ Idle
    /\ ret' = Call("find_descendants", anid, 0, "", <<>>, find_descendants(G, anid))
    /\ UNCHANGED <<ped, pc, oid, G, acc>>

(* find_ancestors_g(pedgraph, anid, {}, gens): the caller passes a new dictionary. *)
FindAncestorsG(anid, gens) ==
    /\ Idle
    /\ ret' = Call("find_ancestors_g", anid, gens, "", <<>>,
                   find_ancestors_g(G, anid, EmptyDict, gens))
    /\ UNCHANGED <<ped, pc, oid, G, acc>>

(* find_ancestors_g(pedgraph, anid, gens=gens): the default dictionary is  *)
(* the one object every such call fills.                                   *)
FindAncestorsGDefault(anid, gens) ==
    LET r == find_ancestors_g(G, anid, acc, gens)
    IN  /\ Usable
        /\ ret' = Call("find_ancestors_g_default", anid, gens, "", <<>>, r)
        /\ acc' = IF r.failed THEN acc ELSE r.dict
        /\ UNCHANGED <<ped, pc, oid, G>>

ImmediateFamily(anid) ==
    /\ Idle
    /\ ret' = Call("immediate_family", anid, 0, "", <<>>, immediate_family(G, anid))
    /\ UNCHANGED <<ped, pc, oid, G, acc>>

CountOffspring(anid) ==
    /\ Idle
    /\ ret' = Call("count_offspring", anid, 0, "", <<>>, count_offspring(G, anid))
    /\ UNCHANGED <<ped, pc, oid, G, acc>>

OffspringInfluence(anid) ==
    /\ Idle
    /\ ret' = Call("offspring_influence", anid, 0, "", <<>>, offspring_influence(G, anid))
    /\ UNCHANGED <<ped, pc, oid, G, acc>>

MostInfluentialOffspring(anid, resolve) ==
    /\ Idle
    /\ \E order \in Orders(DOMAIN offspring_influence(G, anid).dict) :
          ret' = Call("most_influential_offspring", anid, 0, resolve, order,
                      most_influential_offspring(G, anid, resolve, order))
    /\ UNCHANGED <<ped, pc, oid, G, acc>>

GetNodeDegrees ==
    /\ Idle
    /\ ret' = Call("get_node_degrees", 0, 0, "", <<>>, get_node_degrees(G))
    /\ UNCHANGED <<ped, pc, oid, G, acc>>

(* get_node_degree_histograms(get_node_degrees(pedgraph)) *)
GetNodeDegreeHistograms ==
    /\ Idle
    /\ ret' = Call("get_node_degree_histograms", 0, 0, "", <<>>,
                   get_node_degree_histograms(get_node_degrees(G)))
    /\ UNCHANGED <<ped, pc, oid, G, acc>>

(* mean_geodesic(pedgraph): G is the caller's graph as the call leaves it. *)
MeanGeodesic ==
    /\ Idle
    /\ ret' = Call("mean_geodesic", 0, 0, "", <<>>, mean_geodesic(G).r)
    /\ G' = mean_geodesic(G).after
    /\ UNCHANGED <<ped, pc, oid, acc>>

GraphDensity ==
    /\ Idle
    /\ ret' = Call("graph_density", 0, 0, "", <<>>, graph_density(G))
    /\ UNCHANGED <<ped, pc, oid, G, acc>>

(* dyad_census(pedgraph): G is the caller's graph as the call leaves it. *)
DyadCensus ==
    /\ Idle
    /\ ret' = Call("dyad_census", 0, 0, "", <<>>, dyad_census(G).r)
    /\ G' = dyad_census(G).after
    /\ UNCHANGED <<ped, pc, oid, acc>>

MeanDegreeCentrality(normalize) ==
    /\ Idle
    /\ ret' = Call("mean_degree_centrality", normalize, 0, "", <<>>,
                   mean_degree_centrality(G, normalize))
    /\ UNCHANGED <<ped, pc, oid, G, acc>>

(* The caller is done with the value returned and may call again. *)
Forget ==
    /\ Usable
    /\ ret # NoCall
    /\ ret' = NoCall
    /\ UNCHANGED <<ped, pc, oid, G, acc>>

Next ==
    \/ \E o \in {0, 1} : Build(o)
    \/ \E anid \in QueryIds : FindAncestors(anid)
    \/ \E anid \in QueryIds : FindDescendants(anid)
    \/ \E anid \in QueryIds, gens \in 0..MaxGens : FindAncestorsG(anid, gens)
    \/ \E anid \in QueryIds : ImmediateFamily(anid)
    \/ \E anid \in QueryIds : CountOffspring(anid)
    \/ \E anid \in QueryIds : OffspringInfluence(anid)
    \/ \E anid \in QueryIds, resolve \in {"first", "last", "all"} :
          MostInfluentialOffspring(anid, resolve)
    \/ GetNodeDegrees
    \/ GetNodeDegreeHistograms
    \/ MeanGeodesic
    \/ GraphDensity
    \/ DyadCensus
    \/ \E normalize \in {0, 1} : MeanDegreeCentrality(normalize)

Spec == Init /\ [][Next]_vars

(* Sessions of calls of find_ancestors_g() that leave _ancestors to its default. *)
NextDefault ==
    \/ \E o \in {0, 1} : Build(o)
    \/ \E anid \in QueryIds, gens \in 0..MaxGens : FindAncestorsGDefault(anid, gens)

SpecDefault == Init /\ [][NextDefault]_vars

(* Construction and traversal on pedigrees in any record order. *)
NextAny ==
    \/ \E o \in {0, 1} : Build(o)
    \/ \E anid \in QueryIds : FindAncestors(anid)
    \/ \E anid \in QueryIds : FindDescendants(anid)

SpecAny == InitAny /\ [][NextAny]_vars

(* Construction and the metrics that walk all pairs of nodes, on pedigrees *)
(* in any record order.                                                    *)
NextAnyPairs ==
    \/ \E o \in {0, 1} : Build(o)
    \/ MeanGeodesic
    \/ DyadCensus

SpecAnyPairs == InitAny /\ [][NextAnyPairs]_vars

(* Sessions of any number of calls, in any order, on one graph. *)
InitSession == InitWith(UNION {OrderedPedigrees(n) : n \in 1..MaxSessionAnimals})

NextSession ==
    \/ Next
    \/ \E anid \in QueryIds, gens \in 0..MaxGens :
            Idle /\ FindAncestorsGDefault(anid, gens)
    \/ Forget

SpecSession == InitSession /\ [][NextSession]_vars

(* ----------------------------- properties ------------------------------ *)
(* The relations of the pedigree the graph stands for, read off its edges. *)
Parents(g, n) == {u \in Nodes(g) : <<u, n>> \in Edges(g)}

Offspring(g, n) == {v \in Nodes(g) : <<n, v>> \in Edges(g)}

(* The nodes exactly k parent edges back from the nodes in s. *)
RECURSIVE Back(_, _, _)
Back(g, s, k) ==
    IF k = 0 THEN s ELSE Back(g, UNION {Parents(g, n) : n \in s}, k - 1)

(* The nodes exactly k offspring edges forward from the nodes in s. *)
RECURSIVE Forth(_, _, _)
Forth(g, s, k) ==
    IF k = 0 THEN s ELSE Forth(g, UNION {Offspring(g, n) : n \in s}, k - 1)

Within(g, n, gens) == UNION {Back(g, {n}, k) : k \in 1..gens}

Size(g) == Len(g.nodes)

(* n lies on a directed cycle. *)
OnCycle(g, n) == \E k \in 1..Size(g) : n \in Back(g, {n}, k)

(* A cycle can be reached from n going backward, going forward. *)
CycleBehind(g, n) ==
    \E k \in 0..Size(g) : \E w \in Back(g, {n}, k) : OnCycle(g, w)

CycleAhead(g, n) ==
    \E k \in 0..Size(g) : \E w \in Forth(g, {n}, k) : OnCycle(g, w)

(* C1: for all nodes u, v of a built graph, v is among find_descendants(u) *)
(* if and only if u is among find_ancestors(v); stated of the call that    *)
(* returned, against the other function on every node.                     *)
DescendantsMirrorAncestors ==
    Usable =>
        /\ (ret.op = "find_descendants" /\ ret.id \in Nodes(G)) =>
              \A v \in Nodes(G) :
                  v \in ret.set <=> ret.id \in find_ancestors(G, v).set
        /\ (ret.op = "find_ancestors" /\ ret.id \in Nodes(G)) =>
              \A u \in Nodes(G) :
                  u \in ret.set <=> ret.id \in find_descendants(G, u).set

(* C1 witness: find_descendants() returned a grand-offspring of its node. *)
DescendantsFound ==
    /\ ret.op = "find_descendants"
    /\ ret.set \cap Forth(G, {ret.id}, 2) # {}
    /\ ret.set # Nodes(G) \ {ret.id}

(* C2: when a cycle is reachable from id, find_ancestors() and             *)
(* find_descendants() return the failure value and no node collection.     *)
CycleMakesTraversalFail ==
    /\ (ret.op = "find_ancestors" /\ ret.id \in Nodes(G) /\ CycleBehind(G, ret.id))
          => ret.failed
    /\ (ret.op = "find_descendants" /\ ret.id \in Nodes(G) /\ CycleAhead(G, ret.id))
          => ret.failed

(* The number of offspring of n, and the largest such number among the     *)
(* offspring of n.                                                         *)
Influence(g, n) == Cardinality(Offspring(g, n))

TopInfluence(g, n) ==
    CHOOSE m \in {Influence(g, c) : c \in Offspring(g, n)} :
        \A c \in Offspring(g, n) : Influence(g, c) <= m

Leaders(g, n) == {c \in Offspring(g, n) : Influence(g, c) = TopInfluence(g, n)}

(* C3: with resolve='all' the result maps exactly the offspring of maximum *)
(* influence to that maximum, in whatever order the offspring are met.     *)
AllKeepsEveryLeader ==
    (ret.op = "most_influential_offspring" /\ ret.resolve = "all"
        /\ ret.id \in Nodes(G) /\ Offspring(G, ret.id) # {}) =>
        /\ ~ret.failed
        /\ ret.dict = [c \in Leaders(G, ret.id) |-> TopInfluence(G, ret.id)]

(* The positions of the leaders in the order the loop met the offspring. *)
LeaderPositions == {j \in DOMAIN ret.order : ret.order[j] \in Leaders(G, ret.id)}

(* C4: for a node with offspring, resolve='first' returns the single entry *)
(* of the earliest offspring in iteration order whose influence is the     *)
(* maximum, resolve='last' that of the latest.                             *)
FirstAndLastPickOneLeader ==
    (ret.op = "most_influential_offspring" /\ ret.id \in Nodes(G)
        /\ Offspring(G, ret.id) # {}) =>
        /\ ret.resolve = "first" =>
              /\ ~ret.failed
              /\ \E j \in LeaderPositions :
                    /\ \A k \in LeaderPositions : j <= k
                    /\ ret.dict = (ret.order[j] :> TopInfluence(G, ret.id))
        /\ ret.resolve = "last" =>
              /\ ~ret.failed
              /\ \E j \in LeaderPositions :
                    /\ \A k \in LeaderPositions : j >= k
                    /\ ret.dict = (ret.order[j] :> TopInfluence(G, ret.id))

(* C4 witness: resolve='first' returned on a tie of two leaders that were  *)
(* met after an offspring of lower influence.                              *)
FirstResolvedATie ==
    /\ ret.op = "most_influential_offspring"
    /\ ret.resolve = "first"
    /\ Cardinality(LeaderPositions) >= 2
    /\ 1 \notin LeaderPositions
    /\ ~ret.failed

(* A single-parent chain: no cycle, every animal has at most one parent    *)
(* and at most one offspring.                                              *)
IsChain(g) ==
    /\ \A n \in Nodes(g) : ~OnCycle(g, n)
    /\ \A n \in Nodes(g) : Cardinality(Parents(g, n)) <= 1
    /\ \A n \in Nodes(g) : Cardinality(Offspring(g, n)) <= 1

(* The number of parent edges from n back to its ancestor a on a chain. *)
HopsBack(g, n, a) == CHOOSE k \in 1..Size(g) : a \in Back(g, {n}, k)

FreshCallOnChain ==
    /\ Usable
    /\ ret.op = "find_ancestors_g"
    /\ ret.id \in Nodes(G)
    /\ IsChain(G)

(* C5 as stated: on a chain, find_ancestors_g() with an empty accumulator  *)
(* maps the ancestor k hops back, 1 <= k <= gens, to k and holds no other  *)
(* node; {G3:1, G2:2} for gens = 2.                                        *)
ChainAncestorMapsToHops ==
    FreshCallOnChain =>
        /\ ~ret.failed
        /\ ret.dict = [a \in Within(G, ret.id, ret.gens) |-> HopsBack(G, ret.id, a)]

(* C5 amended: on a chain, find_ancestors_g() with an empty accumulator    *)
(* maps the ancestor k hops back, 1 <= k <= gens, to gens - k + 1, the     *)
(* generations left when it was found, and holds no other node.            *)
ChainAncestorMapsToGensLeft ==
    FreshCallOnChain =>
        /\ ~ret.failed
        /\ ret.dict = [a \in Within(G, ret.id, ret.gens) |->
                          ret.gens - HopsBack(G, ret.id, a) + 1]

(* C5 witness: gens = 2 on the last animal of a chain of four returned two *)
(* ancestors.                                                              *)
ChainOfFourTwoBack ==
    /\ FreshCallOnChain
    /\ Size(G) = 4
    /\ ret.gens = 2
    /\ Back(G, {ret.id}, 3) # {}
    /\ Cardinality(DOMAIN ret.dict) = 2

(* C6: a call of find_ancestors_g() that leaves _ancestors to its default  *)
(* returns what the same call returns first in a fresh session, whatever   *)
(* calls came before it.                                                   *)
DefaultCallIsFresh ==
    (Usable /\ ret.op = "find_ancestors_g_default") =>
        LET fresh == find_ancestors_g(G, ret.id, EmptyDict, ret.gens)
        IN  /\ ret.failed = fresh.failed
            /\ ret.dict = fresh.dict

(* The record at position i names a parent whose record was not processed  *)
(* before it.                                                              *)
NamesUnprocessedParent(p, i) ==
    \E x \in {p[i].sireID, p[i].damID} :
        /\ x # missing_parent
        /\ x \notin {p[j].animalID : j \in 1..(i - 1)}

Ordered(p) == \A i \in 1..Len(p) : ~NamesUnprocessedParent(p, i)

(* C7: when a record names a parent that was not processed before it,      *)
(* ped_to_graph() returns the failure value and no graph.                  *)
UnorderedPedigreeFailsToBuild ==
    (pc = "built" /\ ~Ordered(ped)) => ~G.ok

(* The edges a pedigree stands for, with their tags. *)
PedigreeEdges(p) ==
    {<<p[i].sireID, p[i].animalID, "s">> : i \in {j \in 1..Len(p) : p[j].sireID # missing_parent}}
    \cup
    {<<p[i].damID, p[i].animalID, "d">> : i \in {j \in 1..Len(p) : p[j].damID # missing_parent}}

GraphEdges(g) == {<<e[1], e[2], g.sex[e]>> : e \in Edges(g)}

(* The adjacency lists hold each edge once, on both of its ends. *)
AdjacencyMatchesEdges(g) ==
    \A u, v \in Nodes(g) :
        /\ Cardinality({j \in DOMAIN g.succ[u] : g.succ[u][j] = v})
              = (IF <<u, v>> \in Edges(g) THEN 1 ELSE 0)
        /\ Cardinality({j \in DOMAIN g.pred[v] : g.pred[v][j] = u})
              = (IF <<u, v>> \in Edges(g) THEN 1 ELSE 0)

FamilyIsParentsAndOffspring ==
    (ret.op = "immediate_family" /\ ret.id \in Nodes(G)) =>
        /\ ~ret.failed
        /\ ret.set = Parents(G, ret.id) \cup Offspring(G, ret.id)

(* C10: count_offspring() of a node is the number of its offspring, also   *)
(* when the node has parents; of an identifier that is no node it is 0.    *)
CountIsNumberOfOffspring ==
    ret.op = "count_offspring" =>
        /\ ret.id \in Nodes(G) => ret.num = Cardinality(Offspring(G, ret.id))
        /\ ret.id \notin Nodes(G) => ret.num = 0

(* The graph has no directed cycle. *)
Acyclic(g) == \A n \in Nodes(g) : ~OnCycle(g, n)

(* The unordered pairs of distinct nodes, by the edges between the two. *)
Dyads(g) == {d \in SUBSET Nodes(g) : Cardinality(d) = 2}

LinksOf(g, d) == {e \in Edges(g) : e[1] # e[2] /\ {e[1], e[2]} = d}

DyadsWithLinks(g, k) == {d \in Dyads(g) : Cardinality(LinksOf(g, d)) = k}

(* C11: dyad_census() counts a pair as null when neither node has an edge  *)
(* to the other, mutual when both have, asymmetric when exactly one has;   *)
(* for an acyclic graph mutual is 0 and asymmetric the number of pairs     *)
(* joined by an edge.                                                      *)
CensusClassifiesDyads ==
    (Usable /\ ret.op = "dyad_census" /\ Acyclic(G)) =>
        /\ ~ret.failed
        /\ ret.dict.null = Cardinality(DyadsWithLinks(G, 0))
        /\ ret.dict.asymmetric = Cardinality(DyadsWithLinks(G, 1))
        /\ ret.dict.mutual = Cardinality(DyadsWithLinks(G, 2))
        /\ ret.dict.mutual = 0

(* C12: for an acyclic graph of n nodes the three counts of dyad_census()  *)
(* add up to n(n-1)/2, every unordered pair counted once.                  *)
CensusCountsEveryDyadOnce ==
    (Usable /\ ret.op = "dyad_census" /\ Acyclic(G)) =>
        /\ ~ret.failed
        /\ 2 * (ret.dict.null + ret.dict.asymmetric + ret.dict.mutual)
              = Size(G) * (Size(G) - 1)
        /\ ret.dict.null + ret.dict.asymmetric + ret.dict.mutual
              = Cardinality(Dyads(G))

(* C12 witness: a census of four nodes returned with pairs that are joined *)
(* and pairs that are not.                                                 *)
CensusOfFourReturned ==
    /\ ret.op = "dyad_census"
    /\ ~ret.failed
    /\ Size(G) = 4
    /\ DyadsWithLinks(G, 1) # {}
    /\ ret.dict.null > 0

(* The degrees of a node, read off the edges. *)
DegreeOf(g, kind, n) ==
    IF kind = "in" THEN Cardinality(Parents(g, n))
    ELSE IF kind = "out" THEN Cardinality(Offspring(g, n))
    ELSE Cardinality(Parents(g, n)) + Cardinality(Offspring(g, n))

TopDegree(g, kind) ==
    CHOOSE m \in {DegreeOf(g, kind, n) : n \in Nodes(g)} :
        \A n \in Nodes(g) : DegreeOf(g, kind, n) <= m

RECURSIVE SumOver(_, _)
SumOver(f, keys) ==
    IF keys = {} THEN 0
    ELSE LET k == CHOOSE x \in keys : TRUE IN f[k] + SumOver(f, keys \ {k})

(* C13: for a graph with nodes, each of the histograms 'in', 'out', 'all'  *)
(* has exactly the keys 0..largest degree observed, a bucket holds the     *)
(* number of nodes of that degree, and the counts add up to the node count.*)
HistogramsAreDenseAndComplete ==
    (Usable /\ ret.op = "get_node_degree_histograms" /\ Size(G) > 0) =>
        /\ ~ret.failed
        /\ \A kind \in {"in", "out", "all"} :
              /\ DOMAIN ret.dict[kind] = 0..TopDegree(G, kind)
              /\ SumOver(ret.dict[kind], DOMAIN ret.dict[kind]) = Size(G)
              /\ \A k \in DOMAIN ret.dict[kind] :
                    ret.dict[kind][k]
                        = Cardinality({n \in Nodes(G) : DegreeOf(G, kind, n) = k})

(* C13 witness: histograms of four nodes returned with an empty bucket     *)
(* below the largest total degree.                                         *)
HistogramWithEmptyBucket ==
    /\ ret.op = "get_node_degree_histograms"
    /\ ~ret.failed
    /\ Size(G) = 4
    /\ \E k \in DOMAIN ret.dict.all : k < TopDegree(G, "all") /\ ret.dict.all[k] = 0

(* The ordered pairs u, v of distinct nodes with a directed path u -> v,   *)
(* and the length of the shortest one.                                     *)
PathPairs(g) ==
    {pr \in Nodes(g) \X Nodes(g) :
        pr[1] # pr[2] /\ \E k \in 1..Size(g) : pr[2] \in Forth(g, {pr[1]}, k)}

Geodesic(g, u, v) ==
    CHOOSE k \in 1..Size(g) :
        /\ v \in Forth(g, {u}, k)
        /\ \A j \in 1..(k - 1) : v \notin Forth(g, {u}, j)

RECURSIVE GeodesicSum(_, _)
GeodesicSum(g, prs) ==
    IF prs = {} THEN 0
    ELSE LET pr == CHOOSE x \in prs : TRUE
         IN  Geodesic(g, pr[1], pr[2]) + GeodesicSum(g, prs \ {pr})

(* C14: for an acyclic graph mean_geodesic() is the sum of the shortest    *)
(* path lengths over all ordered pairs with a path divided by the number   *)
(* of those pairs, in whatever order the nodes are iterated; it is the     *)
(* failure value when no pair has a path.                                  *)
MeanGeodesicOverAllPairs ==
    (Usable /\ ret.op = "mean_geodesic" /\ Acyclic(G)) =>
        /\ PathPairs(G) = {} => ret.failed
        /\ PathPairs(G) # {} =>
              /\ ~ret.failed
              /\ ret.dict.length_sum * Cardinality(PathPairs(G))
                    = GeodesicSum(G, PathPairs(G)) * ret.dict.n_pairs_with_paths

(* C15: after any calls of the analysis operations, in any order, the      *)
(* caller's graph is the graph ped_to_graph() returned.                    *)
GraphStaysAsBuilt ==
    pc = "built" => G = ped_to_graph(ped, oid)

(* C15 witness: dyad_census() returned on a graph with edges in a session  *)
(* in which find_ancestors_g() had filled its default dictionary before.   *)
CensusAfterOtherCalls ==
    /\ ret.op = "dyad_census"
    /\ ~ret.failed
    /\ Edges(G) # {}
    /\ acc # EmptyDict

(* C16: for an acyclic graph, the keys of find_ancestors_g(graph, id, {},  *)
(* g) are exactly the nodes between 1 and g parent edges back from id.     *)
KeysAreAncestorsWithinGens ==
    (Usable /\ ret.op = "find_ancestors_g" /\ ret.id \in Nodes(G) /\ Acyclic(G)) =>
        /\ ~ret.failed
        /\ DOMAIN ret.dict = Within(G, ret.id, ret.gens)

(* The originalID of the record whose animalID is id. *)
OriginalOf(p, id) == p[CHOOSE j \in 1..Len(p) : p[j].animalID = id].originalID

OriginalEdges(p) ==
    {<<OriginalOf(p, p[i].sireID), p[i].originalID, "s">> :
        i \in {j \in 1..Len(p) : p[j].sireID # missing_parent}}
    \cup
    {<<OriginalOf(p, p[i].damID), p[i].originalID, "d">> :
        i \in {j \in 1..Len(p) : p[j].damID # missing_parent}}

(* C17: built with oid=1 from an ordered pedigree, the graph has one node  *)
(* per record keyed by originalID, its edges run from the originalID of    *)
(* the record whose animalID is the sireID (damID) of the offspring to the *)
(* originalID of the offspring, and the sire and dam attributes of a node  *)
(* are the originalIDs of those same parent records.                       *)
OriginalIdGraphIsThePedigree ==
    (pc = "built" /\ oid = 1 /\ Ordered(ped)) =>
        /\ G.ok
        /\ Size(G) = Len(ped)
        /\ Nodes(G) = {ped[i].originalID : i \in 1..Len(ped)}
        /\ GraphEdges(G) = OriginalEdges(ped)
        /\ \A i \in 1..Len(ped) :
              /\ ped[i].sireID # missing_parent =>
                    G.attr[ped[i].originalID].sire
                        = Str(OriginalOf(ped, ped[i].sireID))
              /\ ped[i].damID # missing_parent =>
                    G.attr[ped[i].originalID].dam
                        = Str(OriginalOf(ped, ped[i].damID))

====
